---- MODULE Spec2Model ----
(***************************************************************************)
(* The evaluation notebook of DentalFaultDetection                         *)
(* (notebooks/model_evaluation.ipynb): one code cell that loads the test   *)
(* annotations, builds the test dataset, loads the model, predicts,        *)
(* prints the box MSE and the classification report and displays the       *)
(* first samples.  An uncaught exception ends the cell.                    *)
(*                                                                         *)
(* Numbers are exact rationals [n, d] (d > 0): dividing or multiplying a   *)
(* float by 128 is exact, so the rational is the value numpy holds.        *)
(* numpy arrays are sequences; a 2-d array is a sequence of rows.          *)
(***************************************************************************)
EXTENDS Integers, Sequences, FiniteSets, TLC

\* ---------------------------------------------------------------- bounds

\* Largest number of entries of the annotation dictionary.
MaxImages == 5
\* Largest dictionary the stage functions are applied to in SpecFn.
MaxFnImages == 2

\* ------------------------------------------------------ program constants

\* cv2.resize(image, (128, 128)); x / 128; image_size=128
ImageSize == 128
\* image / 255.0
MaxIntensity == 255
\* for i in range(5)
DisplayCount == 5

\* A call that raised: it returns nothing.
Raised == [ok |-> FALSE]

\* ------------------------------------------------------------- rationals

Rat(n, d) == [n |-> n, d |-> d]
Whole(n) == Rat(n, 1)
RatDiv(x, k) == Rat(x.n, x.d * k)
RatMul(x, k) == Rat(x.n * k, x.d)
RatEq(x, y) == x.n * y.d = y.n * x.d
RatLE(x, y) == x.n * y.d <= y.n * x.d
RatGT(x, y) == x.n * y.d > y.n * x.d
IsWhole(x) == x.n % x.d = 0

\* threshold=0.5 and the literal 0.5 of predicted_classes > 0.5
Threshold == Rat(1, 2)

\* ndarray.astype(int): the fractional part is dropped (towards zero).
\* AsTypeIntRound is the variant that rounds to the nearest integer.
AsTypeIntRound(x) == (2 * x.n + x.d) \div (2 * x.d)
AsTypeInt(x) == IF x.n >= 0 THEN x.n \div x.d ELSE -((-x.n) \div x.d)

\* ------------------------------------------------------- the files on disk

\* One annotation record of the JSON file.
Ann(x1, y1, x2, y2, label) ==
    [x1 |-> x1, y1 |-> y1, x2 |-> x2, y2 |-> y2, label |-> label]

\* An image file: what cv2.imread makes of it.  An unreadable file gives
\* None (decodable = FALSE).  pixel stands for the image's intensities.
ImageFile(ok, w, h, px) == [decodable |-> ok, width |-> w, height |-> h, pixel |-> px]

\* The entries a dictionary is drawn from: an image file with its records.
\* Every record lies inside its source image.
EntryKinds ==
    { [file |-> ImageFile(TRUE, 128, 128, 255),
       anns |-> << Ann(Whole(10), Whole(20), Whole(64), Whole(128), "Fault") >>],
      [file |-> ImageFile(TRUE, 256, 192, 51),
       anns |-> << Ann(Rat(21, 2), Whole(30), Whole(200), Whole(150), "Void") >>],
      [file |-> ImageFile(TRUE, 64, 64, 0),
       anns |-> << Ann(Whole(0), Whole(0), Whole(32), Rat(129, 4), "fault"),
                   Ann(Whole(5), Whole(6), Whole(60), Whole(64), "Fault") >>],
      [file |-> ImageFile(TRUE, 128, 128, 128),
       anns |-> << >>],
      [file |-> ImageFile(FALSE, 0, 0, 0),
       anns |-> << Ann(Whole(1), Whole(2), Whole(3), Whole(4), "Uneven Finish Line") >>] }

\* The data directories with at most max images: image i is named i.
DataSets(max) == UNION { [1..n -> EntryKinds] : n \in 0..max }

\* json.load of the annotation file of a data directory: image name -> records,
\* in the file's order.
AnnotationsOf(d) == [i \in 1..Len(d) |-> [name |-> i, anns |-> d[i].anns]]

\* The image directory of a data directory: image name -> file.
ImagesOf(d) == [i \in 1..Len(d) |-> d[i].file]

\* The fault categories the README lists, and the notebook's own label.
FaultLabels ==
    {"Fault", "fault", "Void", "Uneven Finish Line", "Insufficient Light Body",
     "Non-continuous Finish Line"}

\* ------------------------------------------------------------ preprocessing

\* cv2.resize(image, (w, h)).  ResizeKeepSource is the variant that leaves the
\* image at its source size.
ResizeKeepSource(image, w, h) == image
Resize(image, w, h) == [image EXCEPT !.width = w, !.height = h]

\* x / 128
Normalize(x) == RatDiv(x, ImageSize)

\* 1 if label == 'Fault' else 0.  ClassOfAnyFault is the variant that takes
\* every fault category for a fault.
ClassOfAnyFault(label) == IF label \in FaultLabels THEN 1 ELSE 0
ClassOf(label) == IF label = "Fault" THEN 1 ELSE 0

\* load_and_preprocess_image, for a file that cv2.imread decoded.
LoadAndPreprocessImage(name, file, annotations) ==
    LET resized == Resize([name |-> name, width |-> file.width,
                           height |-> file.height, pixel |-> Whole(file.pixel)],
                          ImageSize, ImageSize)
    IN [image |-> [resized EXCEPT !.pixel = RatDiv(@, MaxIntensity)],
        boxes |-> [j \in 1..Len(annotations) |->
                     << Normalize(annotations[j].x1), Normalize(annotations[j].y1),
                        Normalize(annotations[j].x2), Normalize(annotations[j].y2) >>],
        classes |-> [j \in 1..Len(annotations) |-> ClassOf(annotations[j].label)]]

\* np.array(list of per-image arrays): the per-image arrays differ in shape.
Ragged(arrays) == \E i, j \in 1..Len(arrays) : Len(arrays[i]) # Len(arrays[j])

\* np.array(list of per-image arrays): numpy before 1.24 builds an object array
\* of a ragged list, numpy from 1.24 on raises.
NpArrayOutcomes(arrays) ==
    IF Ragged(arrays) THEN {"array", "ValueError"} ELSE {"array"}

\* ------------------------------------------------------------------ model

\* The classification heads a model file may hold: image -> score.
ScoreMaps ==
    { [px \in 0..MaxIntensity |-> Rat(1, 2)],
      [px \in 0..MaxIntensity |-> IF px >= 128 THEN Rat(7, 10) ELSE Rat(3, 10)],
      [px \in 0..MaxIntensity |-> IF px < 128 THEN Rat(7, 10) ELSE Rat(1, 2)] }

\* The regression head: image -> normalized box (any floats).
BoxMap(px) == << Rat(0 - 1, 256), Rat(1, 3), Rat(px + 1, 512), Rat(127, 128) >>

\* What tf.keras.models.load_model may return: the box head yields one
\* 4-coordinate box per image, as a batch of shape (N, 4) (ndim 2) or
\* (N, 1, 4) (ndim 3); the class head yields shape (N, 1).
Models == { [ndim |-> r, score |-> f] : r \in {2, 3}, f \in ScoreMaps }

\* model.predict(test_images): predictions[0], predictions[1]
PredictBoxes(m, imgs) ==
    [ndim |-> m.ndim,
     rows |-> [i \in 1..Len(imgs) |->
                 IF m.ndim = 2 THEN BoxMap(imgs[i].pixel.n)
                               ELSE << BoxMap(imgs[i].pixel.n) >>]]

PredictClasses(m, imgs) == [i \in 1..Len(imgs) |-> << m.score[imgs[i].pixel.n] >>]

\* ------------------------------------------------------------ denormalize

\* (boxes * image_size).astype(int), on one value, one box, a list of boxes
DenormalizeValue(x, image_size) == AsTypeInt(RatMul(x, image_size))

DenormalizeBox(box, image_size) ==
    [c \in 1..Len(box) |-> DenormalizeValue(box[c], image_size)]

DenormalizeBoxes(boxes, image_size) ==
    [j \in 1..Len(boxes) |-> DenormalizeBox(boxes[j], image_size)]

\* denormalize_boxes(predicted_boxes): the whole batch at once
DenormalizePredicted(p, image_size) ==
    [ndim |-> p.ndim,
     rows |-> [i \in 1..Len(p.rows) |->
                 IF p.ndim = 2 THEN DenormalizeBox(p.rows[i], image_size)
                               ELSE DenormalizeBoxes(p.rows[i], image_size)]]

\* ----------------------------------------------------------------- metrics

RECURSIVE Flatten(_)
\* np.concatenate over the first axis
Flatten(arrays) ==
    IF arrays = << >> THEN << >> ELSE Head(arrays) \o Flatten(Tail(arrays))

\* np.concatenate(test_boxes_denorm): per-image arrays of shape (k, 4), or
\* (0,) for an image without records; arrays of different ndim cannot be joined.
ConcatTrueBoxes(tbd) ==
    IF /\ \E i \in 1..Len(tbd) : Len(tbd[i]) = 0
       /\ \E i \in 1..Len(tbd) : Len(tbd[i]) > 0
    THEN Raised
    ELSE IF \A i \in 1..Len(tbd) : Len(tbd[i]) = 0
         THEN [ok |-> TRUE, ndim |-> 1, rows |-> << >>]
         ELSE [ok |-> TRUE, ndim |-> 2, rows |-> Flatten(tbd)]

\* np.concatenate(predicted_boxes_denorm): joins the batch's elements.
ConcatPredBoxes(pbd) ==
    [ok |-> TRUE, ndim |-> pbd.ndim - 1, rows |-> Flatten(pbd.rows)]

\* The columns sklearn sees: a 1-d array is one column.
Columns(a) == IF a.ndim = 1 THEN 1 ELSE 4

Cell(a, r, c) == IF a.ndim = 1 THEN a.rows[r] ELSE a.rows[r][c]

RECURSIVE SumSquares(_, _, _)
SumSquares(y_true, y_pred, k) ==
    IF k = 0 THEN 0
    ELSE LET cols == Columns(y_true)
             r == ((k - 1) \div cols) + 1
             c == ((k - 1) % cols) + 1
             diff == Cell(y_true, r, c) - Cell(y_pred, r, c)
         IN diff * diff + SumSquares(y_true, y_pred, k - 1)

\* mean_squared_error(y_true, y_pred): Raised stands for sklearn's ValueError
\* (inconsistent numbers of samples, no sample, different numbers of outputs).
MeanSquaredError(y_true, y_pred) ==
    IF \/ Len(y_true.rows) # Len(y_pred.rows)
       \/ Len(y_true.rows) = 0
       \/ Columns(y_true) # Columns(y_pred)
    THEN Raised
    ELSE [ok |-> TRUE,
          value |-> Rat(SumSquares(y_true, y_pred, Len(y_true.rows) * Columns(y_true)),
                        Len(y_true.rows) * Columns(y_true))]

\* (predicted_classes > 0.5).astype(int)
Binarize(score) == IF RatGT(score, Threshold) THEN 1 ELSE 0

PredictedClassesBinary(pc_) ==
    [i \in 1..Len(pc_) |-> [c \in 1..Len(pc_[i]) |-> Binarize(pc_[i][c])]]

Values(seq) == { seq[k] : k \in 1..Len(seq) }

\* classification_report(y_true, y_pred, target_names=['No Fault', 'Fault']):
\* inconsistent lengths raise; with fewer classes present than target names
\* sklearn raises or only warns, by version.
ClassificationReportOutcomes(y_true, y_pred) ==
    IF Len(y_true) # Len(y_pred) THEN {"ValueError"}
    ELSE IF Cardinality(Values(y_true) \cup Values(y_pred)) # 2
         THEN {"ValueError", "report"}
         ELSE {"report"}

\* --------------------------------------------------------------- visualize

\* plt.Rectangle((x1, y1), x2 - x1, y2 - y1)
Rectangle(box) == [x |-> box[1], y |-> box[2], w |-> box[3] - box[1], h |-> box[4] - box[2]]

Min(a, b) == IF a <= b THEN a ELSE b

RECURSIVE TrueRectangles(_, _, _)
\* for box, cls in zip(true_boxes, true_classes): if cls == 1: draw, over the
\* first k pairs
TrueRectangles(true_boxes, true_classes, k) ==
    IF k = 0 THEN << >>
    ELSE TrueRectangles(true_boxes, true_classes, k - 1)
         \o (IF true_classes[k] = 1 THEN << Rectangle(true_boxes[k]) >> ELSE << >>)

\* The pairs of zip(pred_boxes, pred_classes) whose cls > threshold.
PositivePairs(pred_boxes, pred_classes, threshold) ==
    { k \in 1..Min(Len(pred_boxes.rows), Len(pred_classes)) :
        RatGT(Whole(pred_classes[k]), threshold) }

RECURSIVE PredRectangles(_, _, _, _)
PredRectangles(pred_boxes, pred_classes, threshold, k) ==
    IF k = 0 THEN << >>
    ELSE PredRectangles(pred_boxes, pred_classes, threshold, k - 1)
         \o (IF k \in PositivePairs(pred_boxes, pred_classes, threshold)
             THEN << Rectangle(pred_boxes.rows[k]) >> ELSE << >>)

\* visualize_predictions: the figure shown, or Raised when x1, y1, x2, y2 = box
\* unpacks a scalar (pred_boxes is one flat box: zip yields its coordinates).
VisualizePredictions(image, true_boxes, pred_boxes, true_classes, pred_classes, threshold) ==
    IF pred_boxes.ndim = 1 /\ PositivePairs(pred_boxes, pred_classes, threshold) # {}
    THEN Raised
    ELSE [ok |-> TRUE,
          image |-> Resize(image, ImageSize, ImageSize),
          green |-> TrueRectangles(true_boxes, true_classes,
                                   Min(Len(true_boxes), Len(true_classes))),
          red |-> PredRectangles(pred_boxes, pred_classes, threshold,
                                 Min(Len(pred_boxes.rows), Len(pred_classes)))]

\* predicted_boxes_denorm[i]: one element of the batch
Element(batch, i) == [ndim |-> batch.ndim - 1, rows |-> batch.rows[i]]

\* ------------------------------------------------------------------- state

VARIABLES
    annotation_file,          \* ../data/test_annotations.json, as found on disk
    image_dir,                \* ../data/images: image name -> file
    test_annotations,         \* load_annotations' result
    images, boxes, classes,   \* create_test_dataset's lists
    test_images, test_boxes, test_classes,
    model,
    predicted_boxes, predicted_classes,
    test_boxes_denorm, predicted_boxes_denorm,
    bbox_args,                \* what mean_squared_error was called with
    predicted_classes_binary,
    report_args,              \* what classification_report was called with
    figures,                  \* the figures shown, in order
    printed,                  \* the lines printed, in order
    stages,                   \* the stages entered, in order
    error,                    \* the exception that ended the run
    consumed,                 \* entries the loop of create_test_dataset has taken
    display_i,                \* the display loop's i
    pc

vars ==
    << annotation_file, image_dir, test_annotations, images, boxes, classes,
       test_images, test_boxes, test_classes, model, predicted_boxes,
       predicted_classes, test_boxes_denorm, predicted_boxes_denorm, bbox_args,
       predicted_classes_binary, report_args, figures, printed, stages, error,
       consumed, display_i, pc >>

NoError == [type |-> "", stage |-> ""]
NoModel == [loaded |-> FALSE]
NoBatch == [ndim |-> 0, rows |-> << >>]
NoArgs == [called |-> FALSE]

\* The order of the cell's statements.
StageOrder ==
    << "load_annotations", "create_test_dataset", "load_model", "predict",
       "denormalize", "bbox_mse", "classification_report", "visualize" >>

Blank ==
    /\ test_annotations = << >>
    /\ images = << >> /\ boxes = << >> /\ classes = << >>
    /\ test_images = << >> /\ test_boxes = << >> /\ test_classes = << >>
    /\ model = NoModel
    /\ predicted_boxes = NoBatch /\ predicted_classes = << >>
    /\ test_boxes_denorm = << >> /\ predicted_boxes_denorm = NoBatch
    /\ bbox_args = NoArgs
    /\ predicted_classes_binary = << >>
    /\ report_args = NoArgs
    /\ figures = << >>
    /\ printed = << >>
    /\ stages = << >>
    /\ error = NoError
    /\ consumed = 0
    /\ display_i = 0

\* Before the cell runs: some data directory, whose annotation file may be
\* missing.
Init ==
    /\ \/ /\ annotation_file = [exists |-> FALSE, content |-> << >>]
          /\ image_dir = << >>
       \/ \E d \in DataSets(MaxImages) :
             /\ annotation_file = [exists |-> TRUE, content |-> AnnotationsOf(d)]
             /\ image_dir = ImagesOf(d)
    /\ Blank
    /\ pc = "load_annotations"

\* An uncaught exception: the cell ends.
Raise(stage, type) ==
    /\ pc' = "failed"
    /\ error' = [type |-> type, stage |-> stage]

Enter(stage) == stages' = Append(stages, stage)

PrintLine(text, value) == printed' = Append(printed, [text |-> text, value |-> value])

\* ------------------------------------------------------------ the cell's run

\* test_annotations = load_annotations(test_annotation_file); print
LoadAnnotations ==
    /\ pc = "load_annotations"
    /\ Enter("load_annotations")
    /\ IF annotation_file.exists
       THEN /\ test_annotations' = annotation_file.content
            /\ PrintLine("Loaded test annotations", Whole(Len(annotation_file.content)))
            /\ pc' = "create_test_dataset"
            /\ UNCHANGED error
       ELSE /\ Raise("load_annotations", "FileNotFoundError")
            /\ UNCHANGED << test_annotations, printed >>
    /\ UNCHANGED << annotation_file, image_dir, images, boxes, classes, test_images,
                    test_boxes, test_classes, model, predicted_boxes,
                    predicted_classes, test_boxes_denorm, predicted_boxes_denorm,
                    bbox_args, predicted_classes_binary, report_args, figures, consumed, display_i >>

\* create_test_dataset is called: images, boxes, classes = [], [], []
CreateTestDatasetCall ==
    /\ pc = "create_test_dataset"
    /\ Enter("create_test_dataset")
    /\ images' = << >> /\ boxes' = << >> /\ classes' = << >>
    /\ consumed' = 0
    /\ pc' = "for_image"
    /\ UNCHANGED << annotation_file, image_dir, test_annotations, test_images,
                    test_boxes, test_classes, model, predicted_boxes,
                    predicted_classes, test_boxes_denorm, predicted_boxes_denorm,
                    bbox_args, predicted_classes_binary, report_args, figures,
                    printed, error, display_i >>

\* The three appends of one iteration.  AppendSampleSkipEmpty is the variant
\* that appends no boxes and no classes for an image without records.
AppendSampleSkipEmpty(sample) ==
    /\ images' = Append(images, sample.image)
    /\ boxes' = IF sample.boxes = << >> THEN boxes ELSE Append(boxes, sample.boxes)
    /\ classes' = IF sample.classes = << >> THEN classes ELSE Append(classes, sample.classes)
AppendSample(sample) ==
    /\ images' = Append(images, sample.image)
    /\ boxes' = Append(boxes, sample.boxes)
    /\ classes' = Append(classes, sample.classes)

\* One iteration of for image_name, anns in annotation_dict.items(): cv2.resize
\* raises on the None that cv2.imread returns for a file it cannot decode.
\* CreateTestDatasetStepSkipping is the variant that skips such a file and goes on.
CreateTestDatasetStepSkipping ==
    /\ pc = "for_image"
    /\ consumed < Len(test_annotations)
    /\ LET entry == test_annotations[consumed + 1]
           file == image_dir[entry.name]
       IN IF file.decodable
          THEN AppendSample(LoadAndPreprocessImage(entry.name, file, entry.anns))
          ELSE UNCHANGED << images, boxes, classes >>
    /\ consumed' = consumed + 1
    /\ UNCHANGED << annotation_file, image_dir, test_annotations, test_images,
                    test_boxes, test_classes, model, predicted_boxes,
                    predicted_classes, test_boxes_denorm, predicted_boxes_denorm,
                    bbox_args, predicted_classes_binary, report_args, figures,
                    printed, stages, display_i, pc, error >>
CreateTestDatasetStep ==
    /\ pc = "for_image"
    /\ consumed < Len(test_annotations)
    /\ LET entry == test_annotations[consumed + 1]
           file == image_dir[entry.name]
       IN IF file.decodable
          THEN /\ AppendSample(LoadAndPreprocessImage(entry.name, file, entry.anns))
               /\ consumed' = consumed + 1
               /\ UNCHANGED << pc, error >>
          ELSE /\ Raise("create_test_dataset", "cv2.error")
               /\ UNCHANGED << images, boxes, classes, consumed >>
    /\ UNCHANGED << annotation_file, image_dir, test_annotations, test_images,
                    test_boxes, test_classes, model, predicted_boxes,
                    predicted_classes, test_boxes_denorm, predicted_boxes_denorm,
                    bbox_args, predicted_classes_binary, report_args, figures,
                    printed, stages, display_i >>

\* return np.array(images), np.array(boxes), np.array(classes); print
CreateTestDatasetReturn ==
    /\ pc = "for_image"
    /\ consumed = Len(test_annotations)
    /\ \E outcome \in NpArrayOutcomes(boxes) :
          IF outcome = "array"
          THEN /\ test_images' = images
               /\ test_boxes' = boxes
               /\ test_classes' = classes
               /\ PrintLine("Test dataset prepared", Whole(Len(images)))
               /\ pc' = "load_model"
               /\ UNCHANGED error
          ELSE /\ Raise("create_test_dataset", "ValueError")
               /\ UNCHANGED << test_images, test_boxes, test_classes, printed >>
    /\ UNCHANGED << annotation_file, image_dir, test_annotations, images, boxes,
                    classes, model, predicted_boxes,
                    predicted_classes, test_boxes_denorm, predicted_boxes_denorm,
                    bbox_args, predicted_classes_binary, report_args, figures,
                    stages, consumed, display_i >>

\* model = tf.keras.models.load_model(model_path); print.  The file holds one
\* of Models or cannot be loaded.
LoadModel ==
    /\ pc = "load_model"
    /\ Enter("load_model")
    /\ \E m \in Models \cup {NoModel} :
          IF m = NoModel
          THEN /\ Raise("load_model", "OSError")
               /\ UNCHANGED << model, printed >>
          ELSE /\ model' = [loaded |-> TRUE, ndim |-> m.ndim, score |-> m.score]
               /\ PrintLine("Loaded model", Whole(0))
               /\ pc' = "predict"
               /\ UNCHANGED error
    /\ UNCHANGED << annotation_file, image_dir, test_annotations, images, boxes,
                    classes, test_images, test_boxes, test_classes, predicted_boxes,
                    predicted_classes, test_boxes_denorm, predicted_boxes_denorm,
                    bbox_args, predicted_classes_binary, report_args, figures, consumed, display_i >>

\* predictions = model.predict(test_images): Keras refuses an empty batch.
Predict ==
    /\ pc = "predict"
    /\ Enter("predict")
    /\ IF test_images = << >>
       THEN /\ Raise("predict", "ValueError")
            /\ UNCHANGED << predicted_boxes, predicted_classes >>
       ELSE /\ predicted_boxes' = PredictBoxes(model, test_images)
            /\ predicted_classes' = PredictClasses(model, test_images)
            /\ pc' = "denormalize"
            /\ UNCHANGED error
    /\ UNCHANGED << annotation_file, image_dir, test_annotations, images, boxes,
                    classes, test_images, test_boxes, test_classes, model,
                    test_boxes_denorm, predicted_boxes_denorm,
                    bbox_args, predicted_classes_binary, report_args, figures,
                    printed, consumed, display_i >>

\* test_boxes_denorm = [denormalize_boxes(b) for b in test_boxes]
\* predicted_boxes_denorm = denormalize_boxes(predicted_boxes)
DenormalizeAll ==
    /\ test_boxes_denorm' =
          [i \in 1..Len(test_boxes) |-> DenormalizeBoxes(test_boxes[i], ImageSize)]
    /\ predicted_boxes_denorm' = DenormalizePredicted(predicted_boxes, ImageSize)

Denormalize ==
    /\ pc = "denormalize"
    /\ Enter("denormalize")
    /\ DenormalizeAll
    /\ pc' = "bbox_mse"
    /\ UNCHANGED << annotation_file, image_dir, test_annotations, images, boxes,
                    classes, test_images, test_boxes, test_classes, model,
                    predicted_boxes, predicted_classes,
                    bbox_args, predicted_classes_binary, report_args, figures,
                    printed, error, consumed, display_i >>

\* f"{bbox_mse:.4f}": the value to 4 decimals, ties to even.
Format4(x) ==
    LET scaled == x.n * 10000
        q == scaled \div x.d
        r == scaled % x.d
    IN Rat(IF 2 * r > x.d \/ (2 * r = x.d /\ q % 2 = 1) THEN q + 1 ELSE q, 10000)

\* bbox_mse = mean_squared_error(np.concatenate(test_boxes_denorm),
\*                               np.concatenate(predicted_boxes_denorm)); print
BoxMse ==
    /\ pc = "bbox_mse"
    /\ Enter("bbox_mse")
    /\ LET y_true == ConcatTrueBoxes(test_boxes_denorm)
           y_pred == ConcatPredBoxes(predicted_boxes_denorm)
       IN IF ~y_true.ok
          THEN /\ Raise("bbox_mse", "ValueError")
               /\ UNCHANGED << bbox_args, printed >>
          ELSE /\ bbox_args' = [called |-> TRUE, y_true |-> y_true, y_pred |-> y_pred]
               /\ LET bbox_mse == MeanSquaredError(y_true, y_pred)
                  IN IF bbox_mse.ok
                     THEN /\ PrintLine("Bounding Box Regression MSE",
                                       Format4(bbox_mse.value))
                          /\ pc' = "classification_report"
                          /\ UNCHANGED error
                     ELSE /\ Raise("bbox_mse", "ValueError")
                          /\ UNCHANGED printed
    /\ UNCHANGED << annotation_file, image_dir, test_annotations, images, boxes,
                    classes, test_images, test_boxes, test_classes, model,
                    predicted_boxes, predicted_classes, test_boxes_denorm,
                    predicted_boxes_denorm, predicted_classes_binary, report_args,
                    figures, consumed, display_i >>

\* predicted_classes_binary, test_classes_flat, predicted_classes_flat, the
\* header's print and the call of classification_report
ClassificationArgs ==
    /\ predicted_classes_binary' = PredictedClassesBinary(predicted_classes)
    /\ report_args' =
          [called |-> TRUE,
           y_true |-> Flatten(test_classes),
           y_pred |-> Flatten(PredictedClassesBinary(predicted_classes))]

ClassificationReport ==
    /\ pc = "classification_report"
    /\ Enter("classification_report")
    /\ ClassificationArgs
    /\ \E outcome \in ClassificationReportOutcomes(report_args'.y_true, report_args'.y_pred) :
          IF outcome = "report"
          THEN /\ printed' = printed \o
                    << [text |-> "Classification Report:", value |-> Whole(0)],
                       [text |-> "precision recall f1-score support",
                        value |-> Whole(Len(report_args'.y_true))] >>
               /\ pc' = "visualize"
               /\ UNCHANGED error
          ELSE /\ PrintLine("Classification Report:", Whole(0))
               /\ Raise("classification_report", "ValueError")
    /\ UNCHANGED << annotation_file, image_dir, test_annotations, images, boxes,
                    classes, test_images, test_boxes, test_classes, model,
                    predicted_boxes, predicted_classes, test_boxes_denorm,
                    predicted_boxes_denorm, bbox_args, figures, consumed,
                    display_i >>

\* visualize_predictions(test_images[i], test_boxes_denorm[i],
\*     predicted_boxes_denorm[i], test_classes[i], predicted_classes_binary[i])
\* for the 0-based sample k
ShowSample(k, binary) ==
    VisualizePredictions(test_images[k + 1], test_boxes_denorm[k + 1],
                         Element(predicted_boxes_denorm, k + 1), test_classes[k + 1],
                         binary[k + 1], Threshold)

\* The samples the display loop asks for: range(5).  DisplayRangeToLen is the
\* variant range(min(5, len(test_images))).
DisplayRangeToLen == Min(DisplayCount, Len(test_images))
DisplayRange == DisplayCount

\* One iteration of for i in range(5)
Visualize ==
    /\ pc = "visualize"
    /\ display_i < DisplayRange
    /\ stages' = IF display_i = 0 THEN Append(stages, "visualize") ELSE stages
    /\ IF display_i >= Len(test_images)
       THEN /\ Raise("visualize", "IndexError")
            /\ UNCHANGED << figures, display_i >>
       ELSE IF ShowSample(display_i, predicted_classes_binary).ok
            THEN /\ figures' = Append(figures, [sample |-> display_i,
                                                figure |-> ShowSample(display_i, predicted_classes_binary)])
                 /\ display_i' = display_i + 1
                 /\ pc' = IF display_i + 1 = DisplayRange THEN "done" ELSE "visualize"
                 /\ UNCHANGED error
            ELSE /\ Raise("visualize", "TypeError")
                 /\ UNCHANGED << figures, display_i >>
    /\ UNCHANGED << annotation_file, image_dir, test_annotations, images, boxes,
                    classes, test_images, test_boxes, test_classes, model,
                    predicted_boxes, predicted_classes, test_boxes_denorm,
                    predicted_boxes_denorm, bbox_args, predicted_classes_binary,
                    report_args, printed, consumed >>

Next ==
    \/ LoadAnnotations
    \/ CreateTestDatasetCall
    \/ CreateTestDatasetStep
    \/ CreateTestDatasetReturn
    \/ LoadModel
    \/ Predict
    \/ Denormalize
    \/ BoxMse
    \/ ClassificationReport
    \/ Visualize

Spec == Init /\ [][Next]_vars

\* --------------------------------------------- the stage functions, applied

\* create_test_dataset as a whole, on a data directory it can decode.
CreateTestDataset(d) ==
    [k \in 1..Len(d) |-> LoadAndPreprocessImage(k, d[k].file, d[k].anns)]

\* The run after model.predict, for a data directory of at most MaxFnImages
\* images: the state the lines after it start from.
InitFn ==
    \E d \in DataSets(MaxFnImages), m \in Models :
       /\ Len(d) >= 1
       /\ \A k \in 1..Len(d) : d[k].file.decodable
       /\ annotation_file = [exists |-> TRUE, content |-> AnnotationsOf(d)]
       /\ image_dir = ImagesOf(d)
       /\ test_annotations = AnnotationsOf(d)
       /\ images = [k \in 1..Len(d) |-> CreateTestDataset(d)[k].image]
       /\ boxes = [k \in 1..Len(d) |-> CreateTestDataset(d)[k].boxes]
       /\ classes = [k \in 1..Len(d) |-> CreateTestDataset(d)[k].classes]
       /\ test_images = images /\ test_boxes = boxes /\ test_classes = classes
       /\ consumed = Len(d)
       /\ model = [loaded |-> TRUE, ndim |-> m.ndim, score |-> m.score]
       /\ predicted_boxes = PredictBoxes(m, images)
       /\ predicted_classes = PredictClasses(m, images)
       /\ test_boxes_denorm = << >> /\ predicted_boxes_denorm = NoBatch
       /\ bbox_args = NoArgs
       /\ predicted_classes_binary = << >>
       /\ report_args = NoArgs
       /\ figures = << >>
       /\ printed = << [text |-> "Loaded test annotations", value |-> Whole(Len(d))],
                       [text |-> "Test dataset prepared", value |-> Whole(Len(d))],
                       [text |-> "Loaded model", value |-> Whole(0)] >>
       /\ stages = SubSeq(StageOrder, 1, 4)
       /\ error = NoError
       /\ display_i = 0
       /\ pc = "fn_denormalize"

\* Lines 147-148 on that state.
FnDenormalize ==
    /\ pc = "fn_denormalize"
    /\ Enter("denormalize")
    /\ DenormalizeAll
    /\ pc' = "fn_apply"
    /\ UNCHANGED << annotation_file, image_dir, test_annotations, images, boxes,
                    classes, test_images, test_boxes, test_classes, model,
                    predicted_boxes, predicted_classes,
                    bbox_args, predicted_classes_binary, report_args, figures,
                    printed, error, consumed, display_i >>

\* Lines 156-160 on that state, whatever line 152 did.
FnClassificationReport ==
    /\ pc = "fn_apply"
    /\ Enter("classification_report")
    /\ ClassificationArgs
    /\ \E outcome \in ClassificationReportOutcomes(report_args'.y_true, report_args'.y_pred) :
          IF outcome = "report"
          THEN /\ printed' = printed \o
                    << [text |-> "Classification Report:", value |-> Whole(0)],
                       [text |-> "precision recall f1-score support",
                        value |-> Whole(Len(report_args'.y_true))] >>
               /\ pc' = "fn_done"
               /\ UNCHANGED error
          ELSE /\ PrintLine("Classification Report:", Whole(0))
               /\ Raise("classification_report", "ValueError")
    /\ UNCHANGED << annotation_file, image_dir, test_annotations, images, boxes,
                    classes, test_images, test_boxes, test_classes, model,
                    predicted_boxes, predicted_classes, test_boxes_denorm,
                    predicted_boxes_denorm, bbox_args, figures, consumed,
                    display_i >>

\* Line 156 and one call of the display loop, for any sample of the dataset.
FnVisualize ==
    /\ pc = "fn_apply"
    /\ Enter("visualize")
    /\ predicted_classes_binary' = PredictedClassesBinary(predicted_classes)
    /\ \E k \in 0..(Len(test_images) - 1) :
          /\ display_i' = k
          /\ IF ShowSample(k, predicted_classes_binary').ok
             THEN /\ figures' = Append(figures,
                                       [sample |-> k,
                                        figure |-> ShowSample(k, predicted_classes_binary')])
                  /\ pc' = "fn_done"
                  /\ UNCHANGED error
             ELSE /\ Raise("visualize", "TypeError")
                  /\ UNCHANGED figures
    /\ UNCHANGED << annotation_file, image_dir, test_annotations, images, boxes,
                    classes, test_images, test_boxes, test_classes, model,
                    predicted_boxes, predicted_classes, test_boxes_denorm,
                    predicted_boxes_denorm, bbox_args, report_args, printed,
                    consumed >>

NextFn ==
    \/ FnDenormalize
    \/ FnClassificationReport
    \/ FnVisualize

SpecFn == InitFn /\ [][NextFn]_vars

\* ------------------------------------------------------------------ claims

Ran(stage) == \E k \in 1..Len(stages) : stages[k] = stage

HasPrinted(text) == \E k \in 1..Len(printed) : printed[k].text = text

IsPrefix(s, t) == Len(s) <= Len(t) /\ \A k \in 1..Len(s) : s[k] = t[k]

RECURSIVE CountBefore(_, _)
\* The elements the arrays before the k-th hold together.
CountBefore(arrays, k) ==
    IF k <= 1 THEN 0 ELSE CountBefore(arrays, k - 1) + Len(arrays[k - 1])

\* The array the p-th element of the concatenation comes from.
OwnerOf(arrays, p) ==
    CHOOSE k \in 1..Len(arrays) :
        CountBefore(arrays, k) < p /\ p <= CountBefore(arrays, k) + Len(arrays[k])

\* The records of the image named k, and its file.
Records(k) == annotation_file.content[k].anns
Source(k) == image_dir[annotation_file.content[k].name]

Coords(ann) == << ann.x1, ann.y1, ann.x2, ann.y2 >>

\* C1: whenever the box-MSE step has run, mean_squared_error was called with two
\* coordinate sequences of equal length whose k-th coordinates belong to the
\* same image (and so, four per box, to the same corner).
C1_BoxMseComparesAlignedCoordinates ==
    Ran("bbox_mse") =>
        /\ bbox_args.called
        /\ Len(bbox_args.y_true.rows) * Columns(bbox_args.y_true)
             = Len(bbox_args.y_pred.rows) * Columns(bbox_args.y_pred)
        /\ Columns(bbox_args.y_true) = 4
        /\ \A r \in 1..Len(bbox_args.y_true.rows) :
              OwnerOf(test_boxes_denorm, r) = r

Inside(ann, file) ==
    /\ RatLE(Whole(0), ann.x1) /\ RatLE(ann.x1, Whole(file.width))
    /\ RatLE(Whole(0), ann.x2) /\ RatLE(ann.x2, Whole(file.width))
    /\ RatLE(Whole(0), ann.y1) /\ RatLE(ann.y1, Whole(file.height))
    /\ RatLE(Whole(0), ann.y2) /\ RatLE(ann.y2, Whole(file.height))

\* C3: every normalized coordinate of a record that lies inside its source
\* image is in [0, 1].
C3_NormalizedCoordinatesInUnitInterval ==
    \A k \in 1..Len(boxes) : \A j \in 1..Len(boxes[k]) :
        Inside(Records(k)[j], Source(k)) =>
            \A c \in 1..4 : /\ RatLE(Whole(0), boxes[k][j][c])
                            /\ RatLE(boxes[k][j][c], Whole(1))

\* C4 as stated: denormalizing the normalized box returns the record's
\* coordinates exactly, whole or not.
C4_RoundTripExact ==
    \A k \in 1..Len(test_boxes_denorm) : \A j \in 1..Len(test_boxes_denorm[k]) :
        \A c \in 1..4 :
            RatEq(Whole(test_boxes_denorm[k][j][c]), Coords(Records(k)[j])[c])

\* v is x with its fractional part dropped.
Truncated(v, x) ==
    IF x.n >= 0 THEN v * x.d <= x.n /\ x.n < (v + 1) * x.d
                ELSE (v - 1) * x.d < x.n /\ x.n <= v * x.d

\* C4 (amended): denormalizing the normalized box returns each coordinate of the
\* record with its fractional part dropped, hence exactly the coordinate when it
\* is a whole number.
C4_RoundTripTruncates ==
    \A k \in 1..Len(test_boxes_denorm) : \A j \in 1..Len(test_boxes_denorm[k]) :
        \A c \in 1..4 :
            /\ Truncated(test_boxes_denorm[k][j][c], Coords(Records(k)[j])[c])
            /\ IsWhole(Coords(Records(k)[j])[c]) =>
                   RatEq(Whole(test_boxes_denorm[k][j][c]), Coords(Records(k)[j])[c])

\* C4's case: a record with a coordinate that is not whole has been denormalized.
C4_Witness ==
    \E k \in 1..Len(test_boxes_denorm) : \E j \in 1..Len(test_boxes_denorm[k]) :
        /\ \E c \in 1..4 : ~IsWhole(Coords(Records(k)[j])[c])
        /\ \E c \in 1..4 : IsWhole(Coords(Records(k)[j])[c])
                           /\ Coords(Records(k)[j])[c].n > 0

\* The k-th entries of three parallel lists come from the dictionary's k-th
\* entry, one element per record, in record order.
EntryMatches(imgs, bxs, cls, k) ==
    /\ imgs[k].name = test_annotations[k].name
    /\ Len(bxs[k]) = Len(test_annotations[k].anns)
    /\ Len(cls[k]) = Len(test_annotations[k].anns)
    /\ \A j \in 1..Len(bxs[k]) :
          /\ \A c \in 1..4 : RatEq(RatMul(bxs[k][j][c], ImageSize),
                                   Coords(test_annotations[k].anns[j])[c])
          /\ cls[k][j] = 1 <=> test_annotations[k].anns[j].label = "Fault"

\* C5: after every iteration of create_test_dataset's loop the three lists have
\* one entry per dictionary entry taken so far, entry k of each from the
\* dictionary's k-th image, one element per record in record order; the arrays
\* returned are these lists, of the dictionary's length.
C5_ParallelLists ==
    /\ Len(images) = consumed
    /\ Len(boxes) = consumed
    /\ Len(classes) = consumed
    /\ \A k \in 1..Len(images) : EntryMatches(images, boxes, classes, k)
    /\ HasPrinted("Test dataset prepared") =>
          /\ Len(test_images) = Len(test_annotations)
          /\ Len(test_boxes) = Len(test_annotations)
          /\ Len(test_classes) = Len(test_annotations)
          /\ \A k \in 1..Len(test_images) :
                EntryMatches(test_images, test_boxes, test_classes, k)

\* C5's case: the dataset was returned for images with 0, 1 and 2 records.
C5_Witness ==
    /\ pc = "load_model"
    /\ \E k \in 1..Len(test_boxes) : Len(test_boxes[k]) = 0 /\ k < Len(test_boxes)
    /\ \E k \in 1..Len(test_boxes) : Len(test_boxes[k]) = 2 /\ k > 1
    /\ \E k \in 1..Len(test_boxes) : Len(test_boxes[k]) = 1

\* C6: the stages run once each in the cell's order; an exception ends the run
\* at the stage that raised, nothing runs after it, and a metric is printed only
\* when every image of the dictionary was preprocessed and the model was loaded.
C6_StagesInOrderAndFailFast ==
    /\ IsPrefix(stages, StageOrder)
    /\ pc = "done" => stages = StageOrder /\ error = NoError
    /\ pc = "failed" <=> error # NoError
    /\ pc = "failed" =>
          /\ stages # << >>
          /\ stages[Len(stages)] = error.stage
          /\ ~ENABLED Next
    /\ (HasPrinted("Bounding Box Regression MSE")
        \/ HasPrinted("precision recall f1-score support")) =>
          /\ annotation_file.exists
          /\ Len(test_images) = Len(annotation_file.content)
          /\ \A k \in 1..Len(test_images) :
                test_images[k].name = annotation_file.content[k].name
          /\ model.loaded

\* C6's case: an image that cannot be decoded ended the run after earlier
\* images were preprocessed.
C6_Witness ==
    /\ pc = "failed"
    /\ error = [type |-> "cv2.error", stage |-> "create_test_dataset"]
    /\ Len(images) >= 2
    /\ Len(annotation_file.content) > Len(images) + 1

\* The four denormalized coordinates of the predicted box of image k.
PredictedBox(k) ==
    IF predicted_boxes_denorm.ndim = 2 THEN predicted_boxes_denorm.rows[k]
                                       ELSE predicted_boxes_denorm.rows[k][1]

\* The records of image k the figure must show in green.
GreenRecords(k) == { j \in 1..Len(test_classes[k]) : test_classes[k][j] = 1 }

C8_FixedResolution ==
    /\ \A k \in 1..Len(images) :
          images[k].width = ImageSize /\ images[k].height = ImageSize
    /\ \A k \in 1..Len(test_images) :
          test_images[k].width = ImageSize /\ test_images[k].height = ImageSize
    /\ \A f \in 1..Len(figures) :
          /\ figures[f].figure.image.width = test_images[figures[f].sample + 1].width
          /\ figures[f].figure.image.height = test_images[figures[f].sample + 1].height
          /\ figures[f].figure.image.width = ImageSize
          /\ figures[f].figure.image.height = ImageSize

\* C8's case: a figure was shown for an image whose source is not 128 by 128.
C8_Witness ==
    \E f \in 1..Len(figures) :
        /\ Source(figures[f].sample + 1).width # ImageSize
        /\ Source(figures[f].sample + 1).height # ImageSize

C10_DisplayLoopIndexesFirstFive ==
    /\ Len(figures) = display_i
    /\ \A f \in 1..Len(figures) : figures[f].sample = f - 1
    /\ Len(figures) <= DisplayCount
    /\ Len(figures) <= Len(test_images)
    /\ Ran("visualize") =>
          /\ HasPrinted("Bounding Box Regression MSE")
          /\ HasPrinted("precision recall f1-score support")
    /\ pc = "visualize" => ENABLED Visualize
    /\ pc = "done" => Len(test_images) >= DisplayCount /\ Len(figures) = DisplayCount
    /\ Ran("visualize") /\ pc = "failed" =>
          /\ error = [type |-> "IndexError", stage |-> "visualize"]
          /\ Len(test_images) < DisplayCount
          /\ Len(figures) = Len(test_images)

\* C10's case: a dataset of three images ended the loop at sample 3.
C10_Witness ==
    /\ pc = "failed"
    /\ error.type = "IndexError"
    /\ Len(test_images) = 3
    /\ Len(figures) = 3

====
